---- MODULE Spec2Model ----
(***************************************************************************)
(* TB6612FNG single-channel motor driver (src/tb6612fng.py).               *)
(*                                                                         *)
(* The driver object holds the stored speed and owns three outputs (IN1,   *)
(* IN2, PWM duty) and an optional standby pin.  Direct calls (drive,       *)
(* brake, coast, set_motor, ...) run to completion.  A ramp (drive_ramp    *)
(* consumed by safe_drive, by safe_drive_async or by a caller's own loop)  *)
(* is followed statement by statement and hardware write by hardware       *)
(* write, so that an exception can arrive between any two of them.         *)
(*                                                                         *)
(* Speeds are integers.  An optional argument is a sequence of length <= 1 *)
(* (None is the empty sequence).  The float arithmetic of percent_to_duty  *)
(* is that of the build, single or double precision, fixed at Init.        *)
(*                                                                         *)
(* Spec has every call, one ramp at a time; RampSpec has drive calls and   *)
(* uncancelled ramps; ConcSpec and AltSpec have two safe_drive_async tasks *)
(* on one motor; DutySpec has percent_to_duty alone.                       *)
(***************************************************************************)
EXTENDS Integers, Sequences, FiniteSets, TLC

\* ---------------------------------------------------------------- constants
\* the limits of drive's speed, of percent_to_duty's percentage and of the duty
MaxSpeed == 100
MaxPercent == 100
MaxDuty == 65535
\* 655.35 as the fraction ScaleNum / ScaleDen
ScaleNum == 13107
ScaleDen == 20
\* the single-precision float nearest to 655.35 is SingleNum / 2^SingleExp
SingleNum == 10737254
SingleExp == 14
\* bits in the significand of a single-precision float
SingleBits == 24

\* ------------------------------------------------------------------- bounds
\* speed arguments close to zero: -Near .. Near
Near == 1
\* speed arguments close to the limits: MaxSpeed - Edge .. MaxSpeed
Edge == 0
\* speed arguments beyond the limits: MaxSpeed + 1 .. MaxSpeed + Over
Over == 1
\* a ramp is started only when its target is at most this far from the speed
MaxRampLen == 2
\* percentages given to percent_to_duty: -MaxPercentArg .. MaxPercentArg
MaxPercentArg == 150

\* the histories of a ramp record at most this many entries
HistCap == MaxRampLen + 2

None == <<>>
Some(x) == <<x>>

Abs(x) == IF x < 0 THEN -x ELSE x
Min(a, b) == IF a < b THEN a ELSE b
Max(a, b) == IF a > b THEN a ELSE b

SpeedArgs ==
    {s \in -(MaxSpeed + Over)..(MaxSpeed + Over) :
        Abs(s) <= Near \/ Abs(s) >= MaxSpeed - Edge}
MotorArgs == {50, MaxSpeed + Over}
DutyArgs == {None, Some(MaxDuty)}
PinArgs == {None, Some(0), Some(1)}
Directions == {"forward", "reverse", "raw_values", "motor", "sideways"}
Modes == {"gen", "sync", "async"}
Exceptions == {"KeyboardInterrupt", "CancelledError"}
Tasks == {1, 2}
PercentArgs == -MaxPercentArg..MaxPercentArg
\* MicroPython is built with single-precision or with double-precision floats
FloatImpls == {"single", "double"}

\* ------------------------------------------------------------ pure functions
VARIABLE floatImpl    \* the float width of the build the driver runs on

\* round(), Python 3: to the nearest integer, a tie to the even one
RoundHalfEven(num, den) ==
    LET q == num \div den
        r == num % den
    IN  IF 2 * r > den \/ (2 * r = den /\ q % 2 = 1) THEN q + 1 ELSE q

\* the e with 2^e <= num / den < 2^(e+1), searched upwards from e (num >= den)
RECURSIVE Exponent(_, _, _)
Exponent(num, den, e) ==
    IF 2^(e + 1) * den > num THEN e ELSE Exponent(num, den, e + 1)

\* round(c * 655.35) with double-precision floats, c an integer in 0..100: the
\* product differs from c * ScaleNum / ScaleDen by less than 2^-36, and it is
\* a tie exactly when c * ScaleNum / ScaleDen is one
RoundDouble(c) == RoundHalfEven(c * ScaleNum, ScaleDen)

\* round(c * 655.35) with single-precision floats: the product of c and the
\* stored constant is rounded to SingleBits significant bits, then to an integer
RoundSingle(c) ==
    IF c = 0 THEN 0
    ELSE LET num == c * SingleNum
             frac == SingleBits - 1 - Exponent(num, 2^SingleExp, 0)
             significand ==
                 IF frac >= SingleExp
                 THEN num * 2^(frac - SingleExp)
                 ELSE RoundHalfEven(num, 2^(SingleExp - frac))
         IN  RoundHalfEven(significand, 2^frac)

\* a conversion that keeps the sign of a negative percentage out of the clamp
PercentToDutySigned(p) ==
    LET c == Max(0, Min(MaxPercent, p))
    IN  Min(IF floatImpl = "single" THEN RoundSingle(c) ELSE RoundDouble(c),
            MaxDuty)

percent_to_duty(p) ==
    LET c == Max(0, Min(MaxPercent, Abs(p)))
    IN  Min(IF floatImpl = "single" THEN RoundSingle(c) ELSE RoundDouble(c),
            MaxDuty)

\* a clamp that forgets the lower limit
ClampUpper(s) == Min(MaxSpeed, s)

ClampSpeed(s) == Max(-MaxSpeed, Min(MaxSpeed, s))

\* a hardware write: the output it goes to and the value written
W(pin, val) == [pin |-> pin, val |-> val]

set_raw_values(pin1, pin2, pwm_duty) ==
    (IF pin1 # None THEN <<W("p1", pin1[1])>> ELSE <<>>)
    \o (IF pin2 # None THEN <<W("p2", pin2[1])>> ELSE <<>>)
    \o (IF pwm_duty # None THEN <<W("duty", pwm_duty[1])>> ELSE <<>>)

brake == set_raw_values(Some(1), Some(1), Some(0))
coast == set_raw_values(Some(0), Some(0), Some(0))
set_forward == set_raw_values(Some(1), Some(0), None)
set_reverse == set_raw_values(Some(0), Some(1), None)

\* getattr(self, 'set_' + direction, None): the attribute found, if any
Lookup(direction) ==
    CASE direction = "forward" -> "set_forward"
      [] direction = "reverse" -> "set_reverse"
      [] direction = "raw_values" -> "set_raw_values"
      [] direction = "motor" -> "set_motor"
      [] OTHER -> "None"

\* set_motor(direction, speed): the exception it ends with and its writes
set_motor(direction, sp) ==
    LET method == Lookup(direction)
        dutyW == set_raw_values(None, None, Some(percent_to_duty(sp)))
    IN  CASE method = "None" -> [exc |-> "ValueError", writes |-> <<>>]
          [] method = "set_motor" -> [exc |-> "TypeError", writes |-> <<>>]
          [] method = "set_forward" -> [exc |-> "none", writes |-> set_forward \o dutyW]
          [] method = "set_reverse" -> [exc |-> "none", writes |-> set_reverse \o dutyW]
          [] method = "set_raw_values" ->
                [exc |-> "none", writes |-> set_raw_values(None, None, None) \o dutyW]

\* a drive that turns the lines forward whatever the sign of the speed
DriveWritesForward(p, auto_brake) ==
    IF p # 0
    THEN set_motor("forward", Abs(p)).writes
    ELSE IF auto_brake THEN brake ELSE coast

\* a drive that brakes at zero whatever auto_brake says
DriveWritesBrakeOnly(p, auto_brake) ==
    IF p # 0
    THEN set_motor(IF p < 0 THEN "reverse" ELSE "forward", Abs(p)).writes
    ELSE brake

\* drive(speed, auto_brake) with a speed: the writes that follow self.speed = p
DriveWrites(p, auto_brake) ==
    IF p # 0
    THEN set_motor(IF p < 0 THEN "reverse" ELSE "forward", Abs(p)).writes
    ELSE IF auto_brake THEN brake ELSE coast

\* ------------------------------------------------------------------- state
VARIABLES
    speed,      \* self.speed
    p1, p2,     \* levels of IN1 and IN2
    duty,       \* PWM duty
    hasStby,    \* whether the driver was built with a standby pin
    stby,       \* level of the standby pin (0 when there is none)
    call,       \* the public call in progress or last completed
    ret,        \* how the last completed call ended: exception and value
    writes,     \* hardware writes of the current or last driver method call
    pc,         \* per task: position of its ramp
    mode,       \* per task: who consumes the generator
    target,     \* per task: target_speed
    hasObs,     \* per task: whether status_func is given
    change,     \* per task: the local variable change
    pending,    \* hardware writes the drive call in progress still has to do
    start,      \* per task: stored speed when the ramp was entered
    yielded,    \* per task: values yielded so far
    observed,   \* per task: values passed to status_func so far
    signal,     \* per task: the exception that ended its ramp and where it arrived
    entry,      \* per task: what held when its ramp was entered
    lastDir,    \* direction the lines last showed since they last showed Brake
    sleepers    \* tasks suspended at the delay, the one suspended first at the head

hw == <<p1, p2, duty, stby>>
\* what construction fixes for the life of the driver
build == <<hasStby, floatImpl>>
vars == <<speed, p1, p2, duty, hasStby, floatImpl, stby, call, ret, writes,
          pc, mode, target, hasObs, change, pending, start, yielded, observed,
          signal, entry, lastDir, sleepers>>

Active == {"test", "observe", "apply", "write", "yield", "sleep", "final"}
Ended == {"idle", "done", "braked", "raised"}
Quiescent == \A t \in Tasks : pc[t] \in Ended

HW == [p1 |-> p1, p2 |-> p2, duty |-> duty, stby |-> stby]

WriteOne(h, w) ==
    CASE w.pin = "p1" -> [h EXCEPT !.p1 = w.val]
      [] w.pin = "p2" -> [h EXCEPT !.p2 = w.val]
      [] w.pin = "duty" -> [h EXCEPT !.duty = w.val]
      [] w.pin = "stby" -> [h EXCEPT !.stby = w.val]

RECURSIVE WriteAll(_, _)
WriteAll(h, ws) ==
    IF ws = <<>> THEN h ELSE WriteAll(WriteOne(h, Head(ws)), Tail(ws))

\* the outputs after the writes ws, which are logged as this call's writes
Output(ws) ==
    LET h == WriteAll(HW, ws)
    IN  /\ p1' = h.p1
        /\ p2' = h.p2
        /\ duty' = h.duty
        /\ stby' = h.stby
        /\ writes' = ws

Call(op, sp, ab, dir) == [op |-> op, speed |-> sp, auto_brake |-> ab, direction |-> dir]
Result(exc, val) == [exc |-> exc, val |-> val]

NoRamp == [t \in Tasks |-> "idle"]
NoSignal == [exc |-> "none", at |-> "none"]
NoEntry == [agreed |-> FALSE, afterCancel |-> FALSE]

\* set_motor's and brake's effect on the outputs for the stored speed s
Agrees(h, s) ==
    /\ s > 0 => h.p1 = 1 /\ h.p2 = 0 /\ h.duty = percent_to_duty(s)
    /\ s < 0 => h.p1 = 0 /\ h.p2 = 1 /\ h.duty = percent_to_duty(-s)
    /\ s = 0 => h.duty = 0 /\ h.p1 = h.p2

\* the direction last shown, given the one shown before and the outputs now
Track(old, h) ==
    CASE h.p1 = 1 /\ h.p2 = 1 /\ h.duty = 0 -> "none"
      [] h.p1 = 1 /\ h.p2 = 0 -> "forward"
      [] h.p1 = 0 /\ h.p2 = 1 -> "reverse"
      [] OTHER -> old

\* the sequence q without the task t
RECURSIVE Without(_, _)
Without(q, t) ==
    IF q = <<>> THEN <<>>
    ELSE IF Head(q) = t THEN Without(Tail(q), t)
    ELSE <<Head(q)>> \o Without(Tail(q), t)

\* a direct call forgets the ramps that ended before it
ResetRamps ==
    /\ pc' = NoRamp
    /\ mode' = [t \in Tasks |-> "gen"]
    /\ target' = [t \in Tasks |-> 0]
    /\ hasObs' = [t \in Tasks |-> FALSE]
    /\ change' = [t \in Tasks |-> 0]
    /\ pending' = <<>>
    /\ start' = [t \in Tasks |-> 0]
    /\ yielded' = [t \in Tasks |-> <<>>]
    /\ observed' = [t \in Tasks |-> <<>>]
    /\ signal' = [t \in Tasks |-> NoSignal]
    /\ entry' = [t \in Tasks |-> NoEntry]
    /\ lastDir' = "none"
    /\ sleepers' = <<>>

\* ------------------------------------------------------------ construction
\* the outputs before the constructor's first write: any levels, any duty in
\* DutyLevels; without a standby pin the model keeps stby at 0
DutyLevels == {0, MaxDuty}
PowerOn(sb) ==
    [p1 : {0, 1}, p2 : {0, 1}, duty : DutyLevels,
     stby : IF sb THEN {0, 1} ELSE {0}]

\* self.on()
on == <<W("stby", 1)>>

\* a constructor that enables the driver only after braking
ConstructBrakeFirst(sb) == brake \o (IF sb THEN on ELSE <<>>)

\* the writes of __init__, sb telling whether stby_pin is given
Construct(sb) == (IF sb THEN on ELSE <<>>) \o brake

Init ==
    /\ hasStby \in BOOLEAN
    /\ floatImpl \in FloatImpls
    /\ speed = 0
    /\ \E h0 \in PowerOn(hasStby) :
            LET h == WriteAll(h0, Construct(hasStby))
            IN  p1 = h.p1 /\ p2 = h.p2 /\ duty = h.duty /\ stby = h.stby
    /\ call = Call("__init__", None, TRUE, "")
    /\ ret = Result("none", None)
    /\ writes = Construct(hasStby)
    /\ pc = NoRamp
    /\ mode = [t \in Tasks |-> "gen"]
    /\ target = [t \in Tasks |-> 0]
    /\ hasObs = [t \in Tasks |-> FALSE]
    /\ change = [t \in Tasks |-> 0]
    /\ pending = <<>>
    /\ start = [t \in Tasks |-> 0]
    /\ yielded = [t \in Tasks |-> <<>>]
    /\ observed = [t \in Tasks |-> <<>>]
    /\ signal = [t \in Tasks |-> NoSignal]
    /\ entry = [t \in Tasks |-> NoEntry]
    /\ lastDir = "none"
    /\ sleepers = <<>>

\* ------------------------------------------------------------ direct calls
Drive(s, ab) ==
    /\ Quiescent
    /\ LET p == ClampSpeed(s)
       IN  /\ speed' = p
           /\ Output(DriveWrites(p, ab))
           /\ ret' = Result("none", Some(p))
    /\ call' = Call("drive", Some(s), ab, "")
    /\ ResetRamps
    /\ UNCHANGED build

\* a drive() that applies the stored speed again instead of only reading it
DriveReadReapplies(ab) ==
    /\ Quiescent
    /\ Output(DriveWrites(speed, ab))
    /\ ret' = Result("none", Some(speed))
    /\ call' = Call("drive", None, ab, "")
    /\ ResetRamps
    /\ UNCHANGED <<speed, build>>

\* drive() without a speed: the if is skipped, self.speed is returned
DriveRead(ab) ==
    /\ Quiescent
    /\ Output(<<>>)
    /\ ret' = Result("none", Some(speed))
    /\ call' = Call("drive", None, ab, "")
    /\ ResetRamps
    /\ UNCHANGED <<speed, build>>

\* a brake that also sets the stored speed to zero
BrakeResetsSpeed ==
    /\ Quiescent
    /\ Output(brake)
    /\ speed' = 0
    /\ ret' = Result("none", None)
    /\ call' = Call("brake", None, TRUE, "")
    /\ ResetRamps
    /\ UNCHANGED build

Brake ==
    /\ Quiescent
    /\ Output(brake)
    /\ ret' = Result("none", None)
    /\ call' = Call("brake", None, TRUE, "")
    /\ ResetRamps
    /\ UNCHANGED <<speed, build>>

Coast ==
    /\ Quiescent
    /\ Output(coast)
    /\ ret' = Result("none", None)
    /\ call' = Call("coast", None, TRUE, "")
    /\ ResetRamps
    /\ UNCHANGED <<speed, build>>

SetForward ==
    /\ Quiescent
    /\ Output(set_forward)
    /\ ret' = Result("none", None)
    /\ call' = Call("set_forward", None, TRUE, "")
    /\ ResetRamps
    /\ UNCHANGED <<speed, build>>

SetReverse ==
    /\ Quiescent
    /\ Output(set_reverse)
    /\ ret' = Result("none", None)
    /\ call' = Call("set_reverse", None, TRUE, "")
    /\ ResetRamps
    /\ UNCHANGED <<speed, build>>

SetRawValues(pin1, pin2, pwm_duty) ==
    /\ Quiescent
    /\ Output(set_raw_values(pin1, pin2, pwm_duty))
    /\ ret' = Result("none", None)
    /\ call' = Call("set_raw_values", None, TRUE, "")
    /\ ResetRamps
    /\ UNCHANGED <<speed, build>>

SetMotor(direction, sp) ==
    /\ Quiescent
    /\ LET r == set_motor(direction, sp)
       IN  /\ Output(r.writes)
           /\ ret' = Result(r.exc, None)
    /\ call' = Call("set_motor", Some(sp), TRUE, direction)
    /\ ResetRamps
    /\ UNCHANGED <<speed, build>>

\* on(): without a standby pin self.stby does not exist
On ==
    /\ Quiescent
    /\ IF hasStby
       THEN Output(on) /\ ret' = Result("none", None)
       ELSE Output(<<>>) /\ ret' = Result("AttributeError", None)
    /\ call' = Call("on", None, TRUE, "")
    /\ ResetRamps
    /\ UNCHANGED <<speed, build>>

\* an off that lowers the standby pin before it stops the outputs
OffStandbyFirst(ab) ==
    /\ Quiescent
    /\ LET stop == IF ab THEN brake ELSE coast
       IN  IF hasStby
           THEN Output(<<W("stby", 0)>> \o stop) /\ ret' = Result("none", None)
           ELSE Output(stop) /\ ret' = Result("AttributeError", None)
    /\ call' = Call("off", None, ab, "")
    /\ ResetRamps
    /\ UNCHANGED <<speed, build>>

\* off(auto_brake): the stop mode is applied before self.stby is looked up
Off(ab) ==
    /\ Quiescent
    /\ LET stop == IF ab THEN brake ELSE coast
       IN  IF hasStby
           THEN Output(stop \o <<W("stby", 0)>>) /\ ret' = Result("none", None)
           ELSE Output(stop) /\ ret' = Result("AttributeError", None)
    /\ call' = Call("off", None, ab, "")
    /\ ResetRamps
    /\ UNCHANGED <<speed, build>>

\* the module-level function, called with an integer percentage; it touches
\* neither the driver nor the hardware
PercentToDuty(p) ==
    /\ Quiescent
    /\ call' = Call("percent_to_duty", Some(p), TRUE, "")
    /\ ret' = Result("none", Some(percent_to_duty(p)))
    /\ ResetRamps
    /\ UNCHANGED <<speed, hw, writes, build>>

\* ------------------------------------------------------------------- ramps
SatAppend(s, x) == IF Len(s) < HistCap THEN Append(s, x) ELSE s

RampName(m) ==
    CASE m = "gen" -> "drive_ramp"
      [] m = "sync" -> "safe_drive"
      [] m = "async" -> "safe_drive_async"

\* the task t enters a ramp; what holds at that moment is recorded
Enter(t, m, tgt, obs) ==
    /\ pc[t] \in Ended
    /\ Abs(tgt - speed) <= MaxRampLen
    /\ pc' = [pc EXCEPT ![t] = "test"]
    /\ mode' = [mode EXCEPT ![t] = m]
    /\ target' = [target EXCEPT ![t] = tgt]
    /\ hasObs' = [hasObs EXCEPT ![t] = obs]
    /\ change' = [change EXCEPT ![t] = 0]
    /\ start' = [start EXCEPT ![t] = speed]
    /\ yielded' = [yielded EXCEPT ![t] = <<>>]
    /\ observed' = [observed EXCEPT ![t] = <<>>]
    /\ signal' = [signal EXCEPT ![t] = NoSignal]
    /\ entry' = [entry EXCEPT ![t] = [agreed |-> Agrees(HW, speed),
                                      afterCancel |-> pc[t] = "braked"]]
    /\ lastDir' = Track(IF Quiescent THEN "none" ELSE lastDir, HW)

\* the first task enters a ramp while nothing else runs on the motor
StartRamp(m, tgt, obs) ==
    /\ Quiescent
    /\ Enter(1, m, tgt, obs)
    /\ call' = Call(RampName(m), Some(tgt), TRUE, "")
    /\ ret' = Result("none", None)
    /\ writes' = <<>>
    /\ UNCHANGED <<speed, hw, build, pending, sleepers>>

\* the generator is exhausted and the wrapper returns
Finish(t) ==
    /\ pc' = [pc EXCEPT ![t] = "done"]
    /\ ret' = Result("none", None)

\* a loop that also stops once the speed is above the target
ConvergedOrAbove(cur, tgt) == cur >= tgt

\* a step that always goes up
StepChangeUp(cur, tgt) == 1

\* the loop condition, negated: self.drive() != target_speed is false
Converged(cur, tgt) == cur = tgt

\* change = -1 if self.drive() > target_speed else 1
StepChange(cur, tgt) == IF cur > tgt THEN -1 ELSE 1

\* the while test and, inside the loop, the choice of the step
Test(t) ==
    /\ pc[t] = "test"
    /\ IF ~Converged(speed, target[t])
       THEN /\ change' = [change EXCEPT ![t] = StepChange(speed, target[t])]
            /\ pc' = [pc EXCEPT ![t] = IF hasObs[t] THEN "observe" ELSE "apply"]
            /\ UNCHANGED ret
       ELSE /\ UNCHANGED change
            /\ IF hasObs[t]
               THEN pc' = [pc EXCEPT ![t] = "final"] /\ UNCHANGED ret
               ELSE Finish(t)
    /\ UNCHANGED <<speed, hw, build, call, writes, mode, target, hasObs,
                   pending, start, yielded, observed, signal,
                   entry, lastDir, sleepers>>

\* status_func(self.drive()) before the step
Observe(t) ==
    /\ pc[t] = "observe"
    /\ observed' = [observed EXCEPT ![t] = SatAppend(@, speed)]
    /\ pc' = [pc EXCEPT ![t] = "apply"]
    /\ UNCHANGED <<speed, hw, build, call, ret, writes, mode, target, hasObs,
                   change, pending, start, yielded, signal,
                   entry, lastDir, sleepers>>

\* a step applied with auto_brake off
ApplyCoast(t) ==
    /\ pc[t] = "apply"
    /\ LET p == ClampSpeed(speed + change[t])
       IN  /\ speed' = p
           /\ pending' = DriveWrites(p, FALSE)
    /\ writes' = <<>>
    /\ pc' = [pc EXCEPT ![t] = "write"]
    /\ UNCHANGED <<hw, build, call, ret, mode, target, hasObs, change,
                   start, yielded, observed, signal,
                   entry, lastDir, sleepers>>

\* self.drive(self.drive() + change): the speed is stored, the writes follow
Apply(t) ==
    /\ pc[t] = "apply"
    /\ LET p == ClampSpeed(speed + change[t])
       IN  /\ speed' = p
           /\ pending' = DriveWrites(p, TRUE)
    /\ writes' = <<>>
    /\ pc' = [pc EXCEPT ![t] = "write"]
    /\ UNCHANGED <<hw, build, call, ret, mode, target, hasObs, change,
                   start, yielded, observed, signal,
                   entry, lastDir, sleepers>>

\* the next hardware write of the drive call in progress
Write(t) ==
    /\ pc[t] = "write"
    /\ pending # <<>>
    /\ LET h == WriteOne(HW, Head(pending))
       IN  /\ p1' = h.p1
           /\ p2' = h.p2
           /\ duty' = h.duty
           /\ stby' = h.stby
           /\ lastDir' = Track(lastDir, h)
    /\ writes' = Append(writes, Head(pending))
    /\ pending' = Tail(pending)
    /\ pc' = [pc EXCEPT ![t] = IF Tail(pending) = <<>> THEN "yield" ELSE "write"]
    /\ UNCHANGED <<speed, build, call, ret, mode, target, hasObs, change,
                   start, yielded, observed, signal,
                   entry, sleepers>>

\* yield of the value drive returned; the consumer's loop body starts
Yield(t) ==
    /\ pc[t] = "yield"
    /\ yielded' = [yielded EXCEPT ![t] = SatAppend(@, speed)]
    /\ pc' = [pc EXCEPT ![t] = "sleep"]
    /\ sleepers' = Append(sleepers, t)
    /\ UNCHANGED <<speed, hw, build, call, ret, writes, mode, target, hasObs,
                   change, pending, start, observed, signal,
                   entry, lastDir>>

\* the delay is over (or the caller asks for the next value)
Wake(t) ==
    /\ pc[t] = "sleep"
    /\ pc' = [pc EXCEPT ![t] = "test"]
    /\ sleepers' = Without(sleepers, t)
    /\ UNCHANGED <<speed, hw, build, call, ret, writes, mode, target, hasObs,
                   change, pending, start, yielded, observed, signal,
                   entry, lastDir>>

\* a generator that ends without the last status_func call
FinalSilent(t) ==
    /\ pc[t] = "final"
    /\ Finish(t)
    /\ UNCHANGED <<speed, hw, build, call, writes, mode, target, hasObs,
                   change, pending, start, yielded, observed, signal,
                   entry, lastDir, sleepers>>

\* status_func(self.drive()) after the loop
Final(t) ==
    /\ pc[t] = "final"
    /\ observed' = [observed EXCEPT ![t] = SatAppend(@, speed)]
    /\ Finish(t)
    /\ UNCHANGED <<speed, hw, build, call, writes, mode, target, hasObs,
                   change, pending, start, yielded, signal,
                   entry, lastDir, sleepers>>

\* a blocking wrapper without its except clause
CatchesAsyncOnly(m, exc) == m = "async" /\ exc = "KeyboardInterrupt"

\* except KeyboardInterrupt: of the two wrappers; the bare generator has none
Catches(m, exc) == m \in {"sync", "async"} /\ exc = "KeyboardInterrupt"

\* what can be raised in the task where it stands: an interrupt while its code
\* runs or sleeps, a cancellation only where a coroutine is suspended
CanRaise(t, exc) ==
    \/ exc = "KeyboardInterrupt"
    \/ exc = "CancelledError" /\ mode[t] = "async" /\ pc[t] = "sleep"

\* a handler that also sets the stored speed to 0
RaiseResets(t, exc) ==
    /\ pc[t] \in Active
    /\ CanRaise(t, exc)
    /\ IF Catches(mode[t], exc)
       THEN /\ Output(brake)
            /\ lastDir' = "none"
            /\ speed' = 0
            /\ pc' = [pc EXCEPT ![t] = "braked"]
            /\ ret' = Result("none", None)
       ELSE /\ UNCHANGED <<hw, writes, lastDir, speed>>
            /\ pc' = [pc EXCEPT ![t] = "raised"]
            /\ ret' = Result(exc, None)
    /\ pending' = <<>>
    /\ signal' = [signal EXCEPT ![t] = [exc |-> exc, at |-> pc[t]]]
    /\ sleepers' = Without(sleepers, t)
    /\ UNCHANGED <<build, call, mode, target, hasObs, change,
                   start, yielded, observed, entry>>

\* an exception arrives inside the try block
Raise(t, exc) ==
    /\ pc[t] \in Active
    /\ CanRaise(t, exc)
    /\ IF Catches(mode[t], exc)
       THEN /\ Output(brake)
            /\ lastDir' = "none"
            /\ pc' = [pc EXCEPT ![t] = "braked"]
            /\ ret' = Result("none", None)
       ELSE /\ UNCHANGED <<hw, writes, lastDir>>
            /\ pc' = [pc EXCEPT ![t] = "raised"]
            /\ ret' = Result(exc, None)
    /\ pending' = <<>>
    /\ signal' = [signal EXCEPT ![t] = [exc |-> exc, at |-> pc[t]]]
    /\ sleepers' = Without(sleepers, t)
    /\ UNCHANGED <<speed, build, call, mode, target, hasObs, change,
                   start, yielded, observed, entry>>

RampStep(t) ==
    \/ Test(t)
    \/ Observe(t)
    \/ Apply(t)
    \/ Write(t)
    \/ Yield(t)
    \/ Wake(t)
    \/ Final(t)

Next ==
    \/ \E s \in SpeedArgs, ab \in BOOLEAN : Drive(s, ab)
    \/ \E ab \in BOOLEAN : DriveRead(ab)
    \/ Brake
    \/ Coast
    \/ SetForward
    \/ SetReverse
    \/ \E a \in PinArgs, b \in PinArgs, d \in DutyArgs : SetRawValues(a, b, d)
    \/ \E dir \in Directions, s \in MotorArgs : SetMotor(dir, s)
    \/ On
    \/ \E ab \in BOOLEAN : Off(ab)
    \/ \E m \in Modes, tgt \in SpeedArgs, obs \in BOOLEAN : StartRamp(m, tgt, obs)
    \/ \E t \in Tasks : RampStep(t)
    \/ \E t \in Tasks, exc \in Exceptions : Raise(t, exc)

Spec == Init /\ [][Next]_vars

\* uncancelled ramps alone on the motor, each started from a speed set by
\* drive; a ramp in progress keeps running (the loop goes on, the delay ends,
\* the consumer asks for the next value)
NextRamp ==
    \/ \E s \in SpeedArgs, ab \in BOOLEAN : Drive(s, ab)
    \/ \E m \in Modes, tgt \in SpeedArgs, obs \in BOOLEAN : StartRamp(m, tgt, obs)
    \/ \E t \in Tasks : RampStep(t)

RampSpec == Init /\ [][NextRamp]_vars /\ WF_vars(\E t \in Tasks : RampStep(t))

\* two safe_drive_async tasks on one event loop and one motor.  A coroutine
\* gives up the processor only at await asyncio.sleep(delay): a task that has
\* left the delay runs until it reaches the delay again or returns.
Running == Active \ {"sleep"}

\* a scheduler that switches tasks anywhere
CanRunAlways(t) == TRUE

\* the event loop runs t only while no other task is between two delays
CanRun(t) == \A u \in Tasks \ {t} : pc[u] \notin Running

\* the event loop runs a new task's safe_drive_async up to its first test;
\* each task is created once after the speed was set
CoStart(t, tgt, obs) ==
    /\ CanRun(t)
    /\ pc[t] = "idle"
    /\ Enter(t, "async", tgt, obs)
    /\ call' = Call(RampName("async"), Some(tgt), TRUE, "")
    /\ ret' = Result("none", None)
    /\ writes' = <<>>
    /\ UNCHANGED <<speed, hw, build, pending, sleepers>>

CoStep(t) == CanRun(t) /\ RampStep(t)

InRangeArgs == {s \in SpeedArgs : -MaxSpeed <= s /\ s <= MaxSpeed}

\* in-range speeds set by drive while no ramp runs, then ramps of both tasks
\* to in-range targets (the first task with a status_func, the second
\* without), interleaved as the event loop allows, the delays ending in any
\* order
NextConc ==
    \/ \E s \in InRangeArgs, ab \in BOOLEAN : Drive(s, ab)
    \/ \E t \in Tasks, tgt \in InRangeArgs : CoStart(t, tgt, t = 1)
    \/ \E t \in Tasks : CoStep(t)

ConcSpec == Init /\ [][NextConc]_vars

\* an event loop that wakes the task that went to sleep last
AltStepNewestFirst(t) ==
    /\ CanRun(t)
    /\ pc[t] = "sleep" => sleepers[Len(sleepers)] = t
    /\ RampStep(t)

\* both tasks sleep for the same delay: the event loop wakes them in the order
\* in which they went to sleep
AltStep(t) ==
    /\ CanRun(t)
    /\ pc[t] = "sleep" => Head(sleepers) = t
    /\ RampStep(t)

NextAlt ==
    \/ \E s \in InRangeArgs, ab \in BOOLEAN : Drive(s, ab)
    \/ \E t \in Tasks, tgt \in InRangeArgs : CoStart(t, tgt, t = 1)
    \/ \E t \in Tasks : AltStep(t)

\* the event loop runs a task that is ready
AltSpec == Init /\ [][NextAlt]_vars /\ WF_vars(\E t \in Tasks : AltStep(t))

\* percent_to_duty alone, on every percentage in PercentArgs
NextDuty == \E p \in PercentArgs : PercentToDuty(p)

DutySpec == Init /\ [][NextDuty]_vars

\* ------------------------------------------------------------------ claims
InRange(x) == -MaxSpeed <= x /\ x <= MaxSpeed
IsBrake == p1 = 1 /\ p2 = 1 /\ duty = 0
IsCoast == p1 = 0 /\ p2 = 0 /\ duty = 0

\* C1: whenever a KeyboardInterrupt ended a safe_drive ramp, wherever it
\* arrived, the outputs are Brake and safe_drive has returned normally.
C1_SafeDriveBrakesOnInterrupt ==
    \A t \in Tasks :
        (mode[t] = "sync" /\ signal[t].exc = "KeyboardInterrupt") =>
            /\ pc[t] = "braked"
            /\ IsBrake
            /\ ret = Result("none", None)

\* the interrupt arrived in the middle of a step, between two hardware writes
C1_Witness ==
    /\ mode[1] = "sync"
    /\ signal[1] = [exc |-> "KeyboardInterrupt", at |-> "write"]
    /\ pc[1] = "braked"
    /\ speed # 0
    /\ IsBrake

\* C2: whenever a safe_drive_async ramp was cancelled while suspended at its
\* delay, by an interrupt or by a cancel request, the outputs are Brake.
C2_AsyncCancelAtDelayBrakes ==
    \A t \in Tasks :
        (mode[t] = "async" /\ signal[t].at = "sleep") => IsBrake

\* C3: for an in-range target, the values yielded so far are start + 1,
\* start + 2, ... (or start - 1, start - 2, ...) toward the target, never
\* past it, and all of them up to the target once the generator is exhausted.
C3_RampYieldsUnitSteps ==
    \A t \in Tasks :
        (pc[t] # "idle" /\ InRange(target[t])) =>
            LET c == start[t]
                g == target[t]
                d == IF c < g THEN 1 ELSE -1
                n == Len(yielded[t])
            IN  /\ n <= (IF c < g THEN g - c ELSE c - g)
                /\ \A i \in 1..n : yielded[t][i] = c + i * d
                /\ pc[t] = "done" => n = (IF c < g THEN g - c ELSE c - g)

\* a descending ramp through zero ran to its end
C3_Witness ==
    /\ pc[1] = "done"
    /\ start[1] > 0
    /\ target[1] < 0
    /\ Len(yielded[1]) = MaxRampLen
    /\ yielded[1][Len(yielded[1])] = target[1]

\* C4: an uncancelled ramp alone on the motor with an in-range target reaches
\* done, and at done it has made |target - start| steps and the stored speed
\* is the target.
C4_RampReachesTarget ==
    /\ [](\A t \in Tasks :
            (pc[t] = "done" /\ InRange(target[t])) =>
                /\ speed = target[t]
                /\ Len(yielded[t]) = Abs(target[t] - start[t]))
    /\ \A t \in Tasks :
            (pc[t] \in Active /\ InRange(target[t])) ~> (pc[t] = "done")

\* a cooperative ramp upward of the greatest length ended at its target
C4_Witness ==
    /\ pc[1] = "done"
    /\ mode[1] = "async"
    /\ start[1] < target[1]
    /\ Len(yielded[1]) = MaxRampLen
    /\ speed = target[1]

\* C5: every uncancelled ramp, whatever its target, reaches done, with the
\* stored speed within the limits throughout.
C5_EveryRampTerminates ==
    /\ [](InRange(speed))
    /\ \A t \in Tasks : (pc[t] \in Active) ~> (pc[t] = "done")

\* C6: with an observer and an in-range target, the observer has been called
\* with start, start +- 1, ... in order: once before each step with the speed
\* before it, and once more with the target when the ramp is done; that is
\* |target - start| + 1 calls in all, one call when there is no step.
C6_ObserverCalls ==
    \A t \in Tasks :
        (pc[t] # "idle" /\ hasObs[t] /\ InRange(target[t])
                /\ signal[t] = NoSignal) =>
            LET c == start[t]
                g == target[t]
                d == IF c < g THEN 1 ELSE -1
                n == Len(observed[t])
                k == Len(yielded[t])
            IN  /\ \A i \in 1..n : observed[t][i] = c + (i - 1) * d
                /\ pc[t] \in {"test", "observe", "sleep", "final"} => n = k
                /\ pc[t] \in {"apply", "write", "yield"} => n = k + 1
                /\ pc[t] = "done" =>
                        /\ n = (IF c < g THEN g - c ELSE c - g) + 1
                        /\ observed[t][n] = g

\* an observed ramp of the greatest length ran to its end
C6_Witness ==
    /\ pc[1] = "done"
    /\ hasObs[1]
    /\ Len(observed[1]) = MaxRampLen + 1
    /\ observed[1][1] = start[1]
    /\ observed[1][MaxRampLen + 1] = target[1]

\* C7: the stored speed is always within [-100, 100], and a drive call with
\* a speed returns that speed cut to the limits, which is the stored speed.
C7_SpeedClamped ==
    /\ -MaxSpeed <= speed /\ speed <= MaxSpeed
    /\ (call.op = "drive" /\ call.speed # None) =>
            LET s == call.speed[1]
            IN  /\ ret.exc = "none"
                /\ ret.val = Some(IF s > MaxSpeed THEN MaxSpeed
                                  ELSE IF s < -MaxSpeed THEN -MaxSpeed ELSE s)
                /\ ret.val = Some(speed)

\* drive with a speed below the lower limit returned the lower limit
C7_Witness ==
    /\ call.op = "drive"
    /\ call.speed = Some(-(MaxSpeed + Over))
    /\ ret.val = Some(-MaxSpeed)
    /\ speed = -MaxSpeed

\* C8: set_motor with a direction other than forward and reverse ends with
\* ValueError and has written nothing to the hardware.
C8_InvalidDirectionRejected ==
    (call.op = "set_motor" /\ call.direction \notin {"forward", "reverse"}) =>
        /\ ret.exc = "ValueError"
        /\ writes = <<>>

\* C9: right after drive(speed, auto_brake) the outputs follow the clamped
\* speed p: forward lines and the duty of p, reverse lines and the duty of
\* -p, and at zero Brake with auto_brake and Coast without.
C9_DriveOutputs ==
    (call.op = "drive" /\ call.speed # None) =>
        LET p == ret.val[1]
        IN  /\ p > 0 => (p1 = 1 /\ p2 = 0 /\ duty = percent_to_duty(p))
            /\ p < 0 => (p1 = 0 /\ p2 = 1 /\ duty = percent_to_duty(-p))
            /\ (p = 0 /\ call.auto_brake) => IsBrake
            /\ (p = 0 /\ ~call.auto_brake) => IsCoast

\* drive(0, auto_brake=False) left the motor coasting
C9_Witness ==
    /\ call = Call("drive", Some(0), FALSE, "")
    /\ ret.val = Some(0)
    /\ IsCoast

\* C10: a drive call without a speed returns the stored speed and changes
\* neither the stored speed nor any output, and writes nothing.
C10_DriveReadIsPure ==
    [][(call'.op = "drive" /\ call'.speed = None) =>
            /\ ret' = Result("none", Some(speed))
            /\ speed' = speed
            /\ p1' = p1 /\ p2' = p2 /\ duty' = duty /\ stby' = stby
            /\ writes' = <<>>]_vars

\* drive() without auto_brake read a nonzero speed from a stopped motor
C10_Witness ==
    /\ call = Call("drive", None, FALSE, "")
    /\ speed # 0
    /\ ret.val = Some(speed)
    /\ IsCoast

\* C11: only a drive call with a speed changes the stored speed, be it a
\* direct call or the drive(current + change) call of a ramp step; brake,
\* coast, set_forward, set_reverse, set_motor, set_raw_values, on and off
\* leave it as it is.
C11_DriveIsOnlyWriter ==
    [][/\ call'.op \in {"brake", "coast", "set_forward", "set_reverse",
                        "set_motor", "set_raw_values", "on", "off"}
            => speed' = speed
       /\ speed' # speed =>
            \/ /\ call'.op = "drive"
               /\ call'.speed # None
               /\ ret'.val = Some(speed')
            \/ \E t \in Tasks :
                    /\ pc[t] = "apply"
                    /\ pc'[t] = "write"
                    /\ speed' - speed = change[t]]_vars

\* set_motor turned the outputs to reverse while the stored speed stayed
\* positive
C11_Witness ==
    /\ call.op = "set_motor"
    /\ call.direction = "reverse"
    /\ ret.exc = "none"
    /\ speed > 0
    /\ p1 = 0 /\ p2 = 1
    /\ duty = MaxDuty

\* what C12 says of every call but percent_to_duty(50): the call ends
\* normally with a duty in 0..MaxDuty, the same duty as for the opposite
\* percentage, the integer nearest to min(|p|, 100) * 655.35 up to the error
\* of the float product (under 1/40), and 0, 100, 150 give 0, MaxDuty, MaxDuty
DutyContract(p, d) ==
    LET c == Min(Abs(p), MaxPercent)
    IN  /\ ret.exc = "none"
        /\ d \in 0..MaxDuty
        /\ d = percent_to_duty(-p)
        /\ 2 * Abs(ScaleDen * d - c * ScaleNum) <= ScaleDen + 1
        /\ p = 0 => d = 0
        /\ p = MaxPercent => d = MaxDuty
        /\ p = 150 => d = MaxDuty

\* C12 as stated: percent_to_duty is total, its result lies in 0..65535 and
\* depends only on the magnitude of p, it is round(min(|p|, 100) * 655.35)
\* capped at 65535, and 0, 50, 100, 150 give 0, 32768, 65535, 65535.
C12_PercentToDutyAsStated ==
    call.op = "percent_to_duty" =>
        /\ DutyContract(call.speed[1], ret.val[1])
        /\ call.speed[1] = 50 => ret.val[1] = 32768

\* C12, amended: percent_to_duty is total, its result lies in 0..65535 and
\* depends only on the magnitude of p, it is round(min(|p|, 100) * 655.35) as
\* the build's floats compute it, capped at 65535, and 0, 100, 150 give 0,
\* 65535, 65535; percent_to_duty(50) is 32768 on a build with double-precision
\* floats and 32767 on a build with single-precision floats.
C12_PercentToDuty ==
    call.op = "percent_to_duty" =>
        /\ DutyContract(call.speed[1], ret.val[1])
        /\ call.speed[1] = 50 =>
                ret.val[1] = IF floatImpl = "double" THEN 32768 ELSE 32767

C12_Witness ==
    /\ call = Call("percent_to_duty", Some(-50), TRUE, "")
    /\ floatImpl = "single"
    /\ ret = Result("none", Some(32767))

\* C13: right after construction the stored speed is 0 and the outputs are
\* Brake; with a standby pin the enable line is high, and the write that
\* raised it came before every write of the brake.
C13_ConstructedBraked ==
    call.op = "__init__" =>
        /\ speed = 0
        /\ IsBrake
        /\ \E i, j \in 1..Len(writes) :
                /\ i < j
                /\ writes[i] = W("p1", 1)
                /\ writes[j] = W("duty", 0)
        /\ hasStby =>
                /\ stby = 1
                /\ \E i \in 1..Len(writes) : writes[i] = W("stby", 1)
                /\ \A i, j \in 1..Len(writes) :
                        (writes[i].pin = "stby" /\ writes[j].pin # "stby") => i < j

C13_Witness ==
    /\ call.op = "__init__"
    /\ hasStby
    /\ stby = 1
    /\ speed = 0
    /\ IsBrake
    /\ writes = <<W("stby", 1)>> \o brake

\* C14: off(auto_brake) on a driver with a standby pin ends normally with duty
\* 0 and the enable line low; its only write to the enable line is its last
\* write, and at that write the outputs are already Brake (auto_brake) or
\* Coast (no auto_brake), so the duty is 0 when the line goes low.
C14_OffStopsThenDisables ==
    [][(call'.op = "off" /\ hasStby) =>
            /\ ret'.exc = "none"
            /\ duty' = 0
            /\ stby' = 0
            /\ writes' # <<>>
            /\ writes'[Len(writes')] = W("stby", 0)
            /\ \A k \in 1..Len(writes') :
                    writes'[k].pin = "stby" =>
                        LET h == WriteAll(HW, SubSeq(writes', 1, k - 1))
                            level == IF call'.auto_brake THEN 1 ELSE 0
                        IN  /\ k = Len(writes')
                            /\ h.duty = 0
                            /\ h.p1 = level
                            /\ h.p2 = level]_vars

C14_Witness ==
    /\ call.op = "off"
    /\ ~call.auto_brake
    /\ hasStby
    /\ ret.exc = "none"
    /\ speed # 0
    /\ IsCoast
    /\ stby = 0
    /\ Len(writes) = 4

\* a hardware write of a ramp step turns the lines to the direction opposite
\* to the one they last showed, with no Brake shown in between
Reverses(t) ==
    /\ pc[t] = "write"
    /\ pc'[t] \in {"write", "yield"}
    /\ \/ lastDir = "forward" /\ p1' = 0 /\ p2' = 1
       \/ lastDir = "reverse" /\ p1' = 1 /\ p2' = 0

\* a ramp step that landed on speed 0 has left the outputs in Brake
BrakedAtZero ==
    \A t \in Tasks : (pc[t] = "yield" /\ speed = 0) => IsBrake

\* C15 as stated: the ramp step that lands on speed 0 leaves the outputs in
\* Brake, and during any ramp the lines never go from forward (1,0) to reverse
\* (0,1), or back, without showing Brake (both lines high, duty 0) in between.
C15_NoReversalInAnyRamp ==
    [][BrakedAtZero' /\ \A t \in Tasks : ~Reverses(t)]_vars

\* C15, amended: the ramp step that lands on speed 0 leaves the outputs in
\* Brake, and during a ramp that was entered with the outputs agreeing with
\* the stored speed the lines never go from forward to reverse, or back,
\* without showing Brake in between.
C15_NoReversalWithoutBrake ==
    [][BrakedAtZero' /\ \A t \in Tasks : entry[t].agreed => ~Reverses(t)]_vars

C15_Witness ==
    /\ pc[1] = "sleep"
    /\ entry[1].agreed
    /\ start[1] > 0
    /\ yielded[1] = <<0, -1>>
    /\ p1 = 0 /\ p2 = 1
    /\ lastDir = "reverse"

\* C16: after construction and through drive(speed) calls and uncancelled
\* ramps, whenever no drive call is in the middle of its hardware writes the
\* outputs agree with the stored speed s: lines (1,0) and duty
\* percent_to_duty(s) for s > 0, lines (0,1) and duty percent_to_duty(-s) for
\* s < 0, duty 0 and equal lines for s = 0.
C16_OutputsAgreeWithSpeed ==
    (\A t \in Tasks : pc[t] # "write") =>
        /\ speed > 0 => p1 = 1 /\ p2 = 0 /\ duty = percent_to_duty(speed)
        /\ speed < 0 => p1 = 0 /\ p2 = 1 /\ duty = percent_to_duty(-speed)
        /\ speed = 0 => duty = 0 /\ p1 = p2

C16_Witness ==
    /\ pc[1] = "done"
    /\ start[1] > 0
    /\ speed = -1
    /\ yielded[1] = <<0, -1>>
    /\ p1 = 0 /\ p2 = 1
    /\ duty = percent_to_duty(1)
    /\ duty > 0

\* the last value a ramp yielded, its start value if it yielded none
LastYielded(t) ==
    IF yielded[t] = <<>> THEN start[t] ELSE yielded[t][Len(yielded[t])]

\* C17: an interrupt that a wrapper catches leaves the outputs in Brake and
\* the stored speed at the value of the last applied step (the start value if
\* there was none); drive() then returns that value and changes nothing; a
\* ramp entered next with that value as target applies no step, yields
\* nothing and leaves the outputs in Brake.
C17_CancelKeepsSpeed ==
    /\ [](\A t \in Tasks :
            /\ pc[t] = "braked" =>
                    /\ IsBrake
                    /\ speed = IF signal[t].at \in {"write", "yield"}
                                THEN ClampSpeed(LastYielded(t) + change[t])
                                ELSE LastYielded(t)
            /\ (entry[t].afterCancel /\ target[t] = start[t]) =>
                    /\ pc[t] \in {"test", "final", "done", "braked", "raised"}
                    /\ yielded[t] = <<>>
                    /\ speed = start[t]
                    /\ IsBrake)
    /\ [][/\ \A t \in Tasks :
                (pc[t] \in Active /\ pc'[t] = "braked") => speed' = speed
          /\ ((\E t \in Tasks : pc[t] = "braked")
                 /\ call'.op = "drive" /\ call'.speed = None) =>
                /\ ret'.val = Some(speed)
                /\ speed' = speed
                /\ IsBrake']_vars

C17_Witness ==
    /\ pc[1] = "done"
    /\ entry[1].afterCancel
    /\ target[1] = start[1]
    /\ speed = 1
    /\ yielded[1] = <<>>
    /\ IsBrake

\* C18: of two safe_drive_async ramps on one motor at most one is between two
\* delays at a time, so a step is applied whole: it goes towards the target
\* from the speed it tested, its three writes are done when it yields, every
\* change of the stored speed by a ramp is +1 or -1 and the stored speed stays
\* in -MaxSpeed..MaxSpeed; both ramps are admitted on the motor together.
C18_StepsAreAtomic ==
    /\ [](/\ InRange(speed)
          /\ ~(pc[1] \in Running /\ pc[2] \in Running)
          /\ \A t \in Tasks :
                /\ pc[t] \in {"observe", "apply"} =>
                        /\ ~Converged(speed, target[t])
                        /\ change[t] = StepChange(speed, target[t])
                /\ pc[t] = "yield" =>
                        /\ pending = <<>>
                        /\ Agrees(HW, speed))
    /\ [][speed' # speed =>
            \/ call'.op = "drive" /\ Quiescent
            \/ \E t \in Tasks :
                    /\ pc[t] = "apply"
                    /\ pc'[t] = "write"
                    /\ speed' - speed \in {-1, 1}
                    /\ Abs(target[t] - speed') < Abs(target[t] - speed)]_vars

C18_Witness ==
    /\ pc[1] = "sleep"
    /\ pc[2] = "yield"
    /\ target[1] > target[2]
    /\ yielded[1] # <<>>
    /\ yielded[2] # <<>>
    /\ speed = LastYielded(1) - 1

\* the task lo ramps to the lower target, the task hi to the higher one; both
\* are in their loops, the one that tests next finds the speed off its
\* target, and its step leaves the speed off the target of the other
OscillatingAs(lo, hi) ==
    /\ target[lo] < target[hi]
    /\ \/ /\ pc[lo] \in {"test", "observe", "apply"}
          /\ pc[hi] = "sleep"
          /\ target[lo] < speed /\ speed <= target[hi]
       \/ /\ pc[lo] \in {"write", "yield"}
          /\ pc[hi] = "sleep"
          /\ target[lo] <= speed /\ speed < target[hi]
       \/ /\ pc[hi] \in {"test", "observe", "apply"}
          /\ pc[lo] = "sleep"
          /\ target[lo] <= speed /\ speed < target[hi]
       \/ /\ pc[hi] \in {"write", "yield"}
          /\ pc[lo] = "sleep"
          /\ target[lo] < speed /\ speed <= target[hi]
       \/ /\ pc[lo] = "sleep" /\ pc[hi] = "sleep"
          /\ sleepers = <<lo, hi>>
          /\ target[lo] < speed /\ speed <= target[hi]
       \/ /\ pc[lo] = "sleep" /\ pc[hi] = "sleep"
          /\ sleepers = <<hi, lo>>
          /\ target[lo] <= speed /\ speed < target[hi]

Oscillating == OscillatingAs(1, 2) \/ OscillatingAs(2, 1)

\* C19: two safe_drive_async ramps with different targets and the same delay
\* on one motor, once each finds the speed off its target when its turn comes,
\* stay so for ever: neither returns, and each goes on applying steps, one
\* down and one up, so the stored speed oscillates.
C19_AlternationNeverEnds ==
    /\ [][Oscillating => Oscillating']_vars
    /\ \A t \in Tasks : Oscillating ~> (Oscillating /\ pc[t] = "apply")

C19_Witness ==
    /\ Oscillating
    /\ pc[1] = "sleep" /\ pc[2] = "sleep"
    /\ Len(yielded[1]) >= 2 /\ yielded[1][1] = yielded[1][2]
    /\ Len(yielded[2]) >= 2 /\ yielded[2][1] = yielded[2][2]
    /\ yielded[1][1] # yielded[2][1]
====
